---- MODULE Spec2Model ----
(***************************************************************************)
(* Model of the certificate generator API (src/server.js): the in-memory   *)
(* store, the CSV upload, the certificate renderer drawCertificate and the *)
(* three entry points that render (preview, generate, email).              *)
(*                                                                         *)
(* A JavaScript string is a sequence of tokens; a token is either the      *)
(* whitespace character " " or a run of non-whitespace characters.         *)
(* Each action is one run-to-completion callback of the Node event loop.   *)
(***************************************************************************)
EXTENDS Integers, Sequences, FiniteSets, TLC

\* Number of HTTP requests the server receives in one behaviour.
MaxReqs == 2

ReqIds == 1..MaxReqs

-----------------------------------------------------------------------------
\* JavaScript values and string helpers

Undefined == <<"undefined">>

Falsy(v) == v = Undefined \/ v = <<>>

\* a || b
Or(a, b) == IF Falsy(a) THEN b ELSE a

IsSpace(c) == c = " "

RECURSIVE TrimStart(_)
TrimStart(s) ==
  IF s # <<>> /\ IsSpace(Head(s)) THEN TrimStart(Tail(s)) ELSE s

RECURSIVE TrimEnd(_)
TrimEnd(s) ==
  IF s # <<>> /\ IsSpace(s[Len(s)]) THEN TrimEnd(SubSeq(s, 1, Len(s) - 1)) ELSE s

\* String.prototype.trim
Trim(s) == TrimEnd(TrimStart(s))

\* name.replace(/\s+/g, '_')
RECURSIVE ReplaceSpaces(_)
ReplaceSpaces(s) ==
  IF s = <<>> THEN <<>>
  ELSE IF IsSpace(Head(s))
       THEN <<"_">> \o ReplaceSpaces(TrimStart(s))
       ELSE <<Head(s)>> \o ReplaceSpaces(Tail(s))

CertificateFilename(name) == <<"Certificate_">> \o ReplaceSpaces(name) \o <<".pdf">>

-----------------------------------------------------------------------------
\* The in-memory store's initial values

DefaultEvent == <<"Community", " ", "Event">>

FallbackEvent == <<"Event">>

-----------------------------------------------------------------------------
\* PDFDocument: the drawing state of one document and its output stream

W == 842
H == 595

Today == <<"today">>

InitGState == [rot |-> 0, opa |-> 100, fill |-> "black", lw |-> 1]

\* One unit of encoded output; a chunk is a sequence of units
Unit(part, body) == [part |-> part, body |-> body]

NoDoc ==
  [live |-> FALSE, ops |-> <<>>, path |-> <<>>, g |-> InitGState, stack |-> <<>>,
   font |-> "Helvetica", size |-> 12, pages |-> 0, ended |-> FALSE,
   buf |-> <<>>, sent |-> 0, stream |-> "none"]

\* new PDFDocument({ autoFirstPage: false }): no page yet, the file header is
\* already in the readable buffer
NewPDFDocument ==
  [NoDoc EXCEPT !.live = TRUE, !.buf = << <<Unit("header", <<>>)>> >>, !.stream = "open"]

\* One painted element, with the drawing state it was painted under
Painted(d, kind, arg, x, y) ==
  [kind |-> kind, arg |-> arg, x |-> x, y |-> y, font |-> d.font, size |-> d.size,
   fill |-> d.g.fill, rot |-> d.g.rot, opa |-> d.g.opa, lw |-> d.g.lw,
   page |-> d.pages]

addPage(d) ==
  LET e == [d EXCEPT !.pages = d.pages + 1]
  IN  [e EXCEPT !.ops = Append(d.ops, Painted(e, "addPage", <<>>, W, H))]

rect(d, x, y, w, h) == [d EXCEPT !.path = Append(d.path, <<"rect", x, y, w, h>>)]

moveTo(d, x, y) == [d EXCEPT !.path = Append(d.path, <<"moveTo", x, y>>)]

lineTo(d, x, y) == [d EXCEPT !.path = Append(d.path, <<"lineTo", x, y>>)]

lineWidth(d, w) == [d EXCEPT !.g.lw = w]

fillColor(d, color) == [d EXCEPT !.g.fill = color]

\* doc.fill(color): set the fill colour and fill the current path
fill(d, color) ==
  LET e == fillColor(d, color)
  IN  [e EXCEPT !.ops = Append(d.ops, Painted(e, "fill", d.path, 0, 0)), !.path = <<>>]

\* doc.stroke(color): stroke the current path
stroke(d, color) ==
  [d EXCEPT !.ops = Append(d.ops, Painted(d, "stroke", d.path, 0, 0) @@ [color |-> color]),
            !.path = <<>>]

fontSize(d, n) == [d EXCEPT !.size = n]

font(d, f) == [d EXCEPT !.font = f]

text(d, str, x, y) == [d EXCEPT !.ops = Append(d.ops, Painted(d, "text", str, x, y))]

save(d) == [d EXCEPT !.stack = Append(d.stack, d.g)]

rotate(d, angle) == [d EXCEPT !.g.rot = d.g.rot + angle]

opacity(d, o) == [d EXCEPT !.g.opa = o]

restore(d) ==
  IF d.stack = <<>> THEN d
  ELSE [d EXCEPT !.g = d.stack[Len(d.stack)],
                 !.stack = SubSeq(d.stack, 1, Len(d.stack) - 1)]

\* doc.end(): the page content, the cross-reference table and the trailer are
\* pushed as one more chunk, then end-of-stream
end(d) ==
  [d EXCEPT !.ops = Append(d.ops, Painted(d, "end", <<>>, 0, 0)),
            !.ended = TRUE,
            !.buf = Append(d.buf, <<Unit("page", d.ops), Unit("xref", <<>>),
                                      Unit("trailer", <<>>)>>)]

\* Buffer.concat(chunks)
RECURSIVE BufferConcat(_)
BufferConcat(chunks) ==
  IF chunks = <<>> THEN <<>> ELSE Head(chunks) \o BufferConcat(Tail(chunks))

-----------------------------------------------------------------------------
\* drawCertificate (the renderer), stage by stage

Allocate(d) == addPage(d)

Background(d) == fill(rect(d, 0, 0, W, H), "#fdfcf7")

Frame(d) == stroke(lineWidth(rect(d, 30, 30, W - 60, H - 60), 4), "#222")

Heading(d) ==
  text(font(fontSize(fill(d, "#222"), 26), "Helvetica-Bold"),
       <<"CERTIFICATE OF PARTICIPATION">>, 0, 80)

Subtitle(d) ==
  text(font(fontSize(d, 16), "Helvetica"), <<"This is to certify that">>, 0, 135)

\* doc.fontSize(48).font('Helvetica-Bold').fill('#111').text(name, ...)
Recipient(d, name) ==
  text(fill(font(fontSize(d, 48), "Helvetica-Bold"), "#111"), name, 0, 175)

Body(d) ==
  text(font(fontSize(d, 16), "Helvetica"), <<"has successfully participated in">>, 0, 240)

EventLabel(d, eventName) ==
  text(font(fontSize(d, 22), "Helvetica-Bold"), eventName, 0, 270)

DateLine(d) ==
  text(fill(font(fontSize(d, 12), "Helvetica-Oblique"), "#333"),
       <<"Date:", " ">> \o Today, 70, H - 80)

Signature(d) ==
  text(font(fontSize(stroke(lineTo(moveTo(d, W - 250, H - 120), W - 70, H - 120), "#333"),
                     12), "Helvetica"),
       <<"Authorized Signature">>, W - 250, H - 110)

\* The watermark block of a variant that forgets doc.opacity(1).restore()
WatermarkNoRestore(d) ==
  text(font(opacity(fillColor(fontSize(rotate(save(d), -20), 100), "#cccccc"), 20),
            "Helvetica-Bold"),
       <<"SAMPLE">>, (W \div 2) - 250, (H \div 2) - 60)

\* save, rotate -20, opacity 0.2 (20 percent), text, opacity 1, restore
\* (H/2 is 297.5 in the source; the anchor is kept as an integer here)
Watermark(d) ==
  restore(opacity(
    text(font(opacity(fillColor(fontSize(rotate(save(d), -20), 100), "#cccccc"), 20),
              "Helvetica-Bold"),
         <<"SAMPLE">>, (W \div 2) - 250, (H \div 2) - 60),
    100))

\* A variant that draws the watermark before the text elements
drawCertificateWatermarkFirst(d, name, eventName, watermark) ==
  LET bg == Frame(Background(Allocate(d)))
      wm == IF watermark THEN Watermark(bg) ELSE bg
  IN  Signature(DateLine(EventLabel(Body(Recipient(Subtitle(Heading(wm)), name)),
                                    eventName)))

drawCertificate(d, name, eventName, watermark) ==
  LET body == Signature(DateLine(EventLabel(Body(Recipient(Subtitle(Heading(
                Frame(Background(Allocate(d))))), name)), eventName)))
  IN  IF watermark THEN Watermark(body) ELSE body

-----------------------------------------------------------------------------
\* Request inputs

NameInputs == {Undefined, <<>>, <<" ">>, <<" ", "Al", " ", "Smith">>}

EventInputs == {Undefined, <<" ">>, <<"Expo">>}

EmailInputs == {Undefined, <<"al@example.com">>}

Row(name, email) == [name |-> name, email |-> email]

NoFile == [present |-> FALSE, rows |-> <<>>, bad |-> FALSE]

File(rows, bad) == [present |-> TRUE, rows |-> rows, bad |-> bad]

\* req.file: no file at all, a well-formed CSV, a CSV the parser rejects
FileInputs ==
  {NoFile,
   File(<<Row(<<"Al">>, <<"al@example.com">>), Row(<<" ">>, Undefined)>>, FALSE),
   File(<<Row(<<"Bo">>, Undefined)>>, FALSE),
   File(<<Row(<<"Cy">>, Undefined)>>, TRUE)}

NoInput == [name |-> Undefined, event |-> Undefined, email |-> Undefined, file |-> NoFile]

-----------------------------------------------------------------------------
\* State

VARIABLES
  participants,   \* let participants (line 17)
  currentEvent,   \* let currentEvent (line 18)
  req,            \* per request: its inputs, its handler's locals, where it stands
  docs,           \* the PDFDocument objects
  res,            \* per request: the HTTP response
  outbox,         \* per request: the message handed to transporter.sendMail
  console         \* requests whose document error was written by console.error

vars == <<participants, currentEvent, req, docs, res, outbox, console>>

NoReq ==
  [kind |-> "none", pc |-> "idle", in |-> NoInput, name |-> Undefined,
   eventName |-> Undefined, doc |-> 0, rows |-> <<>>, left |-> <<>>,
   chunks |-> <<>>, promise |-> "none", pdfBuffer |-> <<>>]

NoRes ==
  [status |-> 200, ctype |-> "", filename |-> <<>>, body |-> <<>>,
   json |-> [none |-> TRUE], headersSent |-> FALSE, ended |-> FALSE]

NoMail ==
  [sent |-> FALSE, to |-> Undefined, subject |-> <<>>, text |-> <<>>,
   filename |-> <<>>, content |-> <<>>]

Init ==
  /\ participants = <<>>
  /\ currentEvent = DefaultEvent
  /\ req = [r \in ReqIds |-> NoReq]
  /\ docs = [r \in ReqIds |-> NoDoc]
  /\ res = [r \in ReqIds |-> NoRes]
  /\ outbox = [r \in ReqIds |-> NoMail]
  /\ console = {}

\* Requests are numbered in the order in which the server receives them
Arrives(r) == req[r].pc = "idle" /\ (IF r = 1 THEN TRUE ELSE req[r - 1].pc # "idle")

\* res.status(code).json(payload)
Json(code, payload) ==
  [NoRes EXCEPT !.status = code, !.ctype = "application/json", !.json = payload,
                !.headersSent = TRUE, !.ended = TRUE]

\* res.status(code).send(textBody)
Send(code, textBody) ==
  [NoRes EXCEPT !.status = code, !.ctype = "text/html", !.body = <<textBody>>,
                !.headersSent = TRUE, !.ended = TRUE]

-----------------------------------------------------------------------------
\* POST /api/upload and GET /api/names

\* The handler up to the start of the CSV stream. currentEvent is assigned
\* before req.file.path is read; without a file that read throws (500).
UploadOf(r, events, files) ==
  /\ Arrives(r)
  /\ \E ev \in events, f \in files :
       LET eventName == Or(ev, currentEvent)
           input == [NoInput EXCEPT !.event = ev, !.file = f]
       IN  /\ currentEvent' = Or(eventName, currentEvent)
           /\ IF f.present
              THEN /\ req' = [req EXCEPT ![r] = [NoReq EXCEPT !.kind = "upload",
                                !.pc = "parsing", !.in = input,
                                !.eventName = eventName, !.left = f.rows]]
                   /\ res' = res
              ELSE /\ req' = [req EXCEPT ![r] = [NoReq EXCEPT !.kind = "upload",
                                !.pc = "done", !.in = input, !.eventName = eventName]]
                   /\ res' = [res EXCEPT ![r] =
                                Json(500, [ok |-> FALSE, error |-> "TypeError"])]
  /\ UNCHANGED <<participants, docs, outbox, console>>

Upload(r) == UploadOf(r, EventInputs, FileInputs)

\* parse({ columns: true, trim: true }) trims each field; row.email?.trim() || ""
ParsedRow(row) ==
  Row(Trim(row.name), IF row.email = Undefined THEN <<>> ELSE Or(Trim(row.email), <<>>))

\* .on('data', ...)
UploadData(r) ==
  /\ req[r].pc = "parsing"
  /\ req[r].left # <<>>
  /\ LET row == ParsedRow(Head(req[r].left))
     IN  req' = [req EXCEPT ![r].left = Tail(@),
                            ![r].rows = IF ~Falsy(row.name) /\ ~Falsy(Trim(row.name))
                                        THEN Append(@, row) ELSE @]
  /\ UNCHANGED <<participants, currentEvent, docs, res, outbox, console>>

\* .on('end', ...)
UploadEnd(r) ==
  /\ req[r].pc = "parsing"
  /\ req[r].left = <<>>
  /\ ~req[r].in.file.bad
  /\ participants' = req[r].rows
  /\ res' = [res EXCEPT ![r] = Json(200, [ok |-> TRUE, count |-> Len(req[r].rows),
                                          event |-> currentEvent])]
  /\ req' = [req EXCEPT ![r].pc = "done"]
  /\ UNCHANGED <<currentEvent, docs, outbox, console>>

\* .on('error', ...)
UploadError(r) ==
  /\ req[r].pc = "parsing"
  /\ req[r].left = <<>>
  /\ req[r].in.file.bad
  /\ res' = [res EXCEPT ![r] = Json(400, [ok |-> FALSE, error |-> "parse error"])]
  /\ req' = [req EXCEPT ![r].pc = "done"]
  /\ UNCHANGED <<participants, currentEvent, docs, outbox, console>>

Names(r) ==
  /\ Arrives(r)
  /\ req' = [req EXCEPT ![r] = [NoReq EXCEPT !.kind = "names", !.pc = "done"]]
  /\ res' = [res EXCEPT ![r] = Json(200, [ok |-> TRUE, event |-> currentEvent,
                                          participants |-> participants])]
  /\ UNCHANGED <<participants, currentEvent, docs, outbox, console>>

-----------------------------------------------------------------------------
\* The render entry points

\* A variant in which every handler draws on one module-level document
SharedPDFDocument(ds, r) ==
  [ref |-> 1, docs |-> IF ds[1].live THEN ds ELSE [ds EXCEPT ![1] = NewPDFDocument]]

\* const doc = new PDFDocument(...): a fresh object for the request
PDFDocumentNew(ds, r) == [ref |-> r, docs |-> [ds EXCEPT ![r] = NewPDFDocument]]

\* drawCertificate(doc, ...); doc.end()
Render(ds, ref, name, eventName, watermark) ==
  [ds EXCEPT ![ref] = end(drawCertificate(ds[ref], name, eventName, watermark))]

\* (req.query.name || '').trim()
QueryName(q) == Trim(Or(q, <<>>))

\* (req.query.event || currentEvent || 'Event').trim()
QueryEvent(q, cur) == Trim(Or(Or(q, cur), FallbackEvent))

\* GET /api/preview and GET /api/generate differ in the watermark flag and
\* in the Content-Disposition header
Piped(r, kind, watermark, names, events) ==
  /\ Arrives(r)
  /\ \E n \in names, ev \in events :
       LET name == QueryName(n)
           eventName == QueryEvent(ev, currentEvent)
           input == [NoInput EXCEPT !.name = n, !.event = ev]
           new == PDFDocumentNew(docs, r)
       IN  IF Falsy(name)
           THEN /\ req' = [req EXCEPT ![r] = [NoReq EXCEPT !.kind = kind, !.pc = "done",
                              !.in = input, !.name = name, !.eventName = eventName]]
                /\ res' = [res EXCEPT ![r] = Send(400, "Missing name")]
                /\ docs' = docs
           ELSE /\ req' = [req EXCEPT ![r] = [NoReq EXCEPT !.kind = kind, !.pc = "piping",
                              !.in = input, !.name = name, !.eventName = eventName,
                              !.doc = new.ref]]
                /\ res' = [res EXCEPT ![r] = [NoRes EXCEPT !.ctype = "application/pdf",
                              !.filename = IF kind = "generate"
                                           THEN CertificateFilename(name) ELSE <<>>]]
                /\ docs' = Render(new.docs, new.ref, name, eventName, watermark)
  /\ UNCHANGED <<participants, currentEvent, outbox, console>>

Preview(r) == Piped(r, "preview", TRUE, NameInputs, EventInputs)

Generate(r) == Piped(r, "generate", FALSE, NameInputs, EventInputs)

\* POST /api/email up to the await of the PDF buffer
EmailOf(r, names, emails, events) ==
  /\ Arrives(r)
  /\ \E n \in names, em \in emails, ev \in events :
       LET input == [NoInput EXCEPT !.name = n, !.email = em, !.event = ev]
           eventName == Or(Or(ev, currentEvent), FallbackEvent)
           new == PDFDocumentNew(docs, r)
       IN  IF Falsy(n) \/ Falsy(em)
           THEN /\ req' = [req EXCEPT ![r] = [NoReq EXCEPT !.kind = "email", !.pc = "done",
                              !.in = input, !.name = n]]
                /\ res' = [res EXCEPT ![r] =
                             Json(400, [ok |-> FALSE, error |-> "name and email required"])]
                /\ docs' = docs
           ELSE /\ req' = [req EXCEPT ![r] = [NoReq EXCEPT !.kind = "email",
                              !.pc = "awaitPdf", !.in = input, !.name = n,
                              !.eventName = eventName, !.doc = new.ref,
                              !.promise = "pending"]]
                /\ res' = res
                /\ docs' = Render(new.docs, new.ref, n, eventName, FALSE)
  /\ UNCHANGED <<participants, currentEvent, outbox, console>>

Email(r) == EmailOf(r, NameInputs, EmailInputs, EventInputs)

-----------------------------------------------------------------------------
\* The document's stream events, delivered after the handler has returned

Listening(r) == req[r].pc \in {"piping", "awaitPdf"}

IsPiped(r) == req[r].kind \in {"preview", "generate"}

\* 'data': doc.pipe(res) writes the chunk to the response (lines 110, 128);
\* the email handler pushes it onto chunks (line 148)
DocData(r) ==
  /\ Listening(r)
  /\ LET d == docs[req[r].doc]
     IN  /\ d.stream = "open"
         /\ d.sent < Len(d.buf)
         /\ docs' = [docs EXCEPT ![req[r].doc].sent = @ + 1]
         /\ IF IsPiped(r)
            THEN /\ res' = [res EXCEPT ![r].body = Append(@, d.buf[d.sent + 1]),
                                       ![r].headersSent = TRUE]
                 /\ req' = req
            ELSE /\ req' = [req EXCEPT ![r].chunks = Append(@, d.buf[d.sent + 1])]
                 /\ res' = res
  /\ UNCHANGED <<participants, currentEvent, outbox, console>>

\* 'end': the pipe ends the response; the email handler resolves the promise
\* with Buffer.concat(chunks) (line 149)
DocEnd(r) ==
  /\ Listening(r)
  /\ LET d == docs[req[r].doc]
     IN  /\ d.stream = "open"
         /\ d.ended
         /\ d.sent = Len(d.buf)
         /\ docs' = [docs EXCEPT ![req[r].doc].stream = "ended"]
         /\ IF IsPiped(r)
            THEN /\ res' = [res EXCEPT ![r].headersSent = TRUE, ![r].ended = TRUE]
                 /\ req' = [req EXCEPT ![r].pc = "done"]
            ELSE /\ req' = [req EXCEPT ![r].promise = "resolved",
                                       ![r].pdfBuffer = BufferConcat(req[r].chunks)]
                 /\ res' = res
  /\ UNCHANGED <<participants, currentEvent, outbox, console>>

\* 'error': doc.on('error', (e) => console.error(e)) for the piped handlers
\* (lines 109, 127), which leaves the response as it is; reject for the email
\* handler (line 150)
DocError(r) ==
  /\ Listening(r)
  /\ docs[req[r].doc].stream = "open"
  /\ docs' = [docs EXCEPT ![req[r].doc].stream = "errored"]
  /\ IF IsPiped(r)
     THEN /\ console' = console \cup {r}
          /\ req' = [req EXCEPT ![r].pc = "done"]
     ELSE /\ console' = console
          /\ req' = [req EXCEPT ![r].promise = "rejected"]
  /\ UNCHANGED <<participants, currentEvent, res, outbox>>

-----------------------------------------------------------------------------
\* POST /api/email after the await

\* A variant that reads currentEvent again when it composes the message
MailEventCurrent(r) == Or(currentEvent, FallbackEvent)

\* subject and text use the handler's const eventName (lines 168, 169)
MailEvent(r) == req[r].eventName

\* The message handed to transporter.sendMail
Message(r, buffer) ==
  [sent |-> TRUE, to |-> req[r].in.email,
   subject |-> <<"Your Certificate - ">> \o MailEvent(r),
   text |-> <<"Hi ">> \o req[r].name \o <<", certificate for ">> \o MailEvent(r),
   filename |-> CertificateFilename(req[r].name),
   content |-> buffer]

\* A variant that does not await the buffer: it sends what has arrived so far
EmailSendEarly(r) ==
  /\ req[r].pc = "awaitPdf"
  /\ outbox' = [outbox EXCEPT ![r] = Message(r, BufferConcat(req[r].chunks))]
  /\ req' = [req EXCEPT ![r].pc = "awaitMail"]
  /\ UNCHANGED <<participants, currentEvent, docs, res, console>>

\* createTransport and the call of transporter.sendMail
EmailSend(r) ==
  /\ req[r].pc = "awaitPdf"
  /\ req[r].promise = "resolved"
  /\ outbox' = [outbox EXCEPT ![r] = Message(r, req[r].pdfBuffer)]
  /\ req' = [req EXCEPT ![r].pc = "awaitMail"]
  /\ UNCHANGED <<participants, currentEvent, docs, res, console>>

\* the rejected promise is thrown at the await and caught (line 176)
EmailCatch(r) ==
  /\ req[r].pc = "awaitPdf"
  /\ req[r].promise = "rejected"
  /\ res' = [res EXCEPT ![r] = Json(500, [ok |-> FALSE, error |-> "stream error"])]
  /\ req' = [req EXCEPT ![r].pc = "done"]
  /\ UNCHANGED <<participants, currentEvent, docs, outbox, console>>

\* sendMail resolves
MailDelivered(r) ==
  /\ req[r].pc = "awaitMail"
  /\ res' = [res EXCEPT ![r] = Json(200, [ok |-> TRUE, message |-> "Email sent"])]
  /\ req' = [req EXCEPT ![r].pc = "done"]
  /\ UNCHANGED <<participants, currentEvent, docs, outbox, console>>

\* sendMail rejects
MailFailed(r) ==
  /\ req[r].pc = "awaitMail"
  /\ res' = [res EXCEPT ![r] = Json(500, [ok |-> FALSE, error |-> "smtp error"])]
  /\ req' = [req EXCEPT ![r].pc = "done"]
  /\ UNCHANGED <<participants, currentEvent, docs, outbox, console>>

-----------------------------------------------------------------------------
\* Specification

Next ==
  \E r \in ReqIds :
    \/ Upload(r)
    \/ UploadData(r)
    \/ UploadEnd(r)
    \/ UploadError(r)
    \/ Names(r)
    \/ Preview(r)
    \/ Generate(r)
    \/ Email(r)
    \/ DocData(r)
    \/ DocEnd(r)
    \/ DocError(r)
    \/ EmailSend(r)
    \/ EmailCatch(r)
    \/ MailDelivered(r)
    \/ MailFailed(r)

Spec == Init /\ [][Next]_vars

-----------------------------------------------------------------------------
\* The render entry points alone, up to the end of each document's stream.
\* Every request names a recipient; the blank name is refused by the piped
\* handlers and rendered by the email handler.

RenderNames == {<<" ">>, <<" ", "Al", " ", "Smith">>}

RenderEvents == {Undefined, <<"Expo">>}

RenderEmails == {<<"al@example.com">>}

PreviewRequest(r) == Piped(r, "preview", TRUE, RenderNames, RenderEvents)

GenerateRequest(r) == Piped(r, "generate", FALSE, RenderNames, RenderEvents)

EmailRequest(r) == EmailOf(r, RenderNames, RenderEmails, RenderEvents)

NextRender ==
  \E r \in ReqIds :
    \/ PreviewRequest(r)
    \/ GenerateRequest(r)
    \/ EmailRequest(r)
    \/ DocData(r)
    \/ DocEnd(r)
    \/ DocError(r)

SpecRender == Init /\ [][NextRender]_vars

-----------------------------------------------------------------------------
\* Emails and previews racing with uploads that rename the current event

MailNames == {<<" ", "Al", " ", "Smith">>}

MailEvents == {Undefined, <<"Expo">>}

RenameEvents == {<<" ">>, <<"Fair">>}

RenameFiles == {File(<<Row(<<"Bo">>, Undefined)>>, FALSE)}

MailRequest(r) == EmailOf(r, MailNames, RenderEmails, MailEvents)

MailPreview(r) == Piped(r, "preview", TRUE, MailNames, {Undefined})

Rename(r) == UploadOf(r, RenameEvents, RenameFiles)

NextMail ==
  \E r \in ReqIds :
    \/ Rename(r)
    \/ UploadData(r)
    \/ UploadEnd(r)
    \/ MailRequest(r)
    \/ MailPreview(r)
    \/ DocData(r)
    \/ DocEnd(r)
    \/ DocError(r)
    \/ EmailSend(r)
    \/ EmailCatch(r)
    \/ MailDelivered(r)
    \/ MailFailed(r)

SpecMail == Init /\ [][NextMail]_vars

-----------------------------------------------------------------------------
\* Reading a document back

IsRender(r) == req[r].kind \in {"preview", "generate", "email"}

WatermarkEnabled(r) == req[r].kind = "preview"

\* The request drew a certificate
Drew(r) == req[r].doc # 0

DocOf(r) == docs[req[r].doc]

\* doc.fill(color) with no path only selects the colour
Paints(op) == ~(op.kind = "fill" /\ op.arg = <<>>)

\* The stage an operation belongs to, by what it paints and where
Stage(op) ==
  CASE op.kind = "addPage" -> "allocated"
    [] op.kind = "fill" -> IF op.arg = << <<"rect", 0, 0, W, H>> >>
                           THEN "background-painted" ELSE "other-fill"
    [] op.kind = "stroke" -> IF op.arg = << <<"rect", 30, 30, W - 60, H - 60>> >>
                             THEN "framed" ELSE "signature-line"
    [] op.kind = "text" ->
         (CASE op.y = 80 -> "heading"
            [] op.y = 135 -> "subtitle"
            [] op.y = 175 -> "recipient"
            [] op.y = 240 -> "body"
            [] op.y = 270 -> "event"
            [] op.y = H - 80 -> "date"
            [] op.y = H - 110 -> "signature-caption"
            [] op.y = (H \div 2) - 60 -> "watermarked"
            [] OTHER -> "other-text")
    [] op.kind = "end" -> "finalized"
    [] OTHER -> "other"

StageTrace(ops) ==
  LET painted == SelectSeq(ops, Paints)
  IN  [i \in 1..Len(painted) |-> Stage(painted[i])]

IsText(op) == op.kind = "text"

TextsOf(ops) ==
  LET texts == SelectSeq(ops, IsText)
  IN  [i \in 1..Len(texts) |-> texts[i].arg]

IsEventText(op) == op.kind = "text" /\ op.y = 270

\* The event labels a document carries (one per certificate drawn on it)
DrawnEvents(d) ==
  LET labels == SelectSeq(d.ops, IsEventText)
  IN  [i \in 1..Len(labels) |-> labels[i].arg]

ElementStages ==
  <<"allocated", "background-painted", "framed", "heading", "subtitle", "recipient",
    "body", "event", "date", "signature-line", "signature-caption">>

-----------------------------------------------------------------------------
\* C2: every document a render call has drawn went through the stages
\* allocated, background-painted, framed, the seven text elements in their
\* order, the watermark last when it is enabled, and finalized, each once;
\* nothing is drawn on it after doc.end().
StageOrder ==
  \A r \in ReqIds :
    Drew(r) =>
      /\ DocOf(r).ended
      /\ StageTrace(DocOf(r).ops) =
           ElementStages
             \o (IF WatermarkEnabled(r) THEN <<"watermarked">> ELSE <<>>)
             \o <<"finalized">>

StageOrderWitness ==
  \E r, q \in ReqIds :
    /\ req[r].kind = "preview" /\ Drew(r) /\ DocOf(r).stream = "ended"
    /\ req[q].kind = "email" /\ Drew(q)

\* C3: after a call with the watermark enabled, rotation and opacity are what
\* they were before the watermark block (0 and 1), the saved-state stack is
\* as deep as before (empty), the watermark itself is rotated and translucent,
\* and whatever is done on the document afterwards is neither.
WatermarkRestored ==
  \A r \in ReqIds :
    (Drew(r) /\ WatermarkEnabled(r)) =>
      LET d == DocOf(r)
      IN  /\ d.stack = <<>>
          /\ \E i \in 2..Len(d.ops) :
               /\ Stage(d.ops[i]) = "watermarked"
               /\ d.ops[i].rot = -20 /\ d.ops[i].opa = 20
               /\ d.g.rot = d.ops[i - 1].rot /\ d.g.rot = 0
               /\ d.g.opa = d.ops[i - 1].opa /\ d.g.opa = 100
               /\ \A j \in (i + 1)..Len(d.ops) :
                    d.ops[j].rot = 0 /\ d.ops[j].opa = 100

WatermarkRestoredWitness ==
  \E r \in ReqIds :
    /\ req[r].kind = "preview" /\ Drew(r)
    /\ \E i \in DOMAIN DocOf(r).ops :
         DocOf(r).ops[i].arg = <<"SAMPLE">> /\ DocOf(r).ops[i].rot = -20

\* C5: each request draws on a document of its own, and what that document
\* carries is one page with exactly the elements of that request: the fixed
\* texts, its own name and event label, the watermark only for a preview, all
\* but the watermark drawn unrotated and opaque.
OwnDocument ==
  \A r \in ReqIds :
    Drew(r) =>
      LET d == DocOf(r)
      IN  /\ \A q \in ReqIds \ {r} : Drew(q) => req[q].doc # req[r].doc
          /\ d.pages = 1
          /\ TextsOf(d.ops) =
               << <<"CERTIFICATE OF PARTICIPATION">>, <<"This is to certify that">>,
                  req[r].name, <<"has successfully participated in">>,
                  req[r].eventName, <<"Date:", " ">> \o Today,
                  <<"Authorized Signature">> >>
               \o (IF WatermarkEnabled(r) THEN << <<"SAMPLE">> >> ELSE <<>>)
          /\ \A i \in DOMAIN d.ops :
               /\ d.ops[i].page = 1
               /\ Stage(d.ops[i]) # "watermarked" =>
                    d.ops[i].rot = 0 /\ d.ops[i].opa = 100

OwnDocumentWitness ==
  \E r, q \in ReqIds :
    /\ r # q /\ Drew(r) /\ Drew(q)
    /\ req[r].kind = "preview" /\ req[q].kind # "preview"
    /\ req[r].name # req[q].name
    /\ req[r].eventName # req[q].eventName
    /\ DocOf(r).stream = "open" /\ DocOf(q).stream = "open"

\* C6: an email is sent only once the document is finalized and its 'end'
\* event has fired, its attachment is every chunk the document produced, in
\* emission order, and no email is sent for a document whose stream failed.
MailAfterEnd ==
  \A r \in ReqIds :
    req[r].kind = "email" =>
      /\ outbox[r].sent =>
           /\ DocOf(r).ended
           /\ DocOf(r).stream = "ended"
           /\ DocOf(r).sent = Len(DocOf(r).buf)
           /\ outbox[r].content = BufferConcat(DocOf(r).buf)
           /\ outbox[r].content # <<>>
      /\ (Drew(r) /\ DocOf(r).stream = "errored") => ~outbox[r].sent

MailAfterEndWitness ==
  \E r, q \in ReqIds :
    /\ req[r].kind = "email" /\ outbox[r].sent /\ req[r].pc = "done"
    /\ res[r].json = [ok |-> TRUE, message |-> "Email sent"]
    /\ Len(outbox[r].content) > Len(DocOf(r).buf)
    /\ req[q].kind = "email" /\ Drew(q) /\ DocOf(q).stream = "errored"
    /\ res[q].status = 500

\* C7: the event label of a request is read once, in its handler: the label
\* drawn on the certificate is the handler's snapshot, and the subject and the
\* body of the mail carry that same label, whatever currentEvent has become.
EventSnapshot ==
  \A r \in ReqIds :
    Drew(r) =>
      /\ DrawnEvents(DocOf(r)) = <<req[r].eventName>>
      /\ outbox[r].sent =>
           /\ outbox[r].subject = <<"Your Certificate - ">> \o DrawnEvents(DocOf(r))[1]
           /\ outbox[r].text =
                <<"Hi ">> \o req[r].name \o <<", certificate for ">>
                  \o DrawnEvents(DocOf(r))[1]

\* An email without an event label was sent after an upload renamed the event
EventSnapshotWitness ==
  \E r \in ReqIds :
    /\ req[r].kind = "email" /\ outbox[r].sent
    /\ Falsy(req[r].in.event)
    /\ DrawnEvents(DocOf(r)) = <<DefaultEvent>>
    /\ currentEvent = <<"Fair">>

-----------------------------------------------------------------------------
\* C1: a render request whose recipient name is empty or only whitespace ends
\* in an error and never reaches drawCertificate.
BlankNameRefused ==
  \A r \in ReqIds :
    (IsRender(r) /\ Falsy(Trim(Or(req[r].in.name, <<>>)))) =>
      /\ ~Drew(r)
      /\ res[r].ended /\ res[r].status >= 400
      /\ ~outbox[r].sent

\* C4: when the document of a request emits an error, the request ends in an
\* error outcome; the caller is not left with a success response that carries
\* part of a document.
FailureSurfaced ==
  \A r \in ReqIds :
    (IsRender(r) /\ Drew(r) /\ DocOf(r).stream = "errored" /\ req[r].pc = "done") =>
      /\ res[r].status >= 400
      /\ res[r].ended
      /\ ~outbox[r].sent

\* C8: a render request without an event label draws the current event of the
\* moment of the request, and never an empty label.
DefaultLabelDrawn ==
  [][\A r \in ReqIds :
       (~Drew(r) /\ Drew(r)' /\ Falsy(req'[r].in.event)) =>
         /\ DrawnEvents(DocOf(r)') = <<currentEvent>>
         /\ DrawnEvents(DocOf(r)')[1] # <<>>]_vars

\* C9: the stored event and roster are the initial pair or the event and the
\* rows of one and the same upload, and a successful upload's response reports
\* the event that upload supplied.
UploadOfStore(r) ==
  /\ req[r].kind = "upload"
  /\ req[r].pc = "done"
  /\ res[r].status = 200
  /\ currentEvent = req[r].in.event
  /\ participants = req[r].rows

SuppliesEvent(r) == ~Falsy(req[r].in.event) /\ ~Falsy(Trim(req[r].in.event))

StoreFromOneUpload ==
  (\A r \in ReqIds : req[r].kind = "upload" => SuppliesEvent(r)) =>
    /\ \/ (currentEvent = DefaultEvent /\ participants = <<>>)
       \/ \E r \in ReqIds : UploadOfStore(r)
    /\ \A r \in ReqIds :
         (req[r].kind = "upload" /\ res[r].status = 200 /\ res[r].ended) =>
           res[r].json.event = req[r].in.event

\* C10: a failed upload leaves the store as it was: as long as every request
\* received so far is an upload that failed, the store holds its initial values.
FailedUploadKeepsStore ==
  (\A r \in ReqIds :
     req[r].pc = "idle"
       \/ (req[r].kind = "upload" /\ req[r].pc = "done" /\ res[r].status >= 400))
    => (participants = <<>> /\ currentEvent = DefaultEvent)

====
